---- MODULE Spec2Model ----
(***************************************************************************)
(* Model of spdm_get_encap_response_challenge_auth                         *)
(* (library/spdm_requester_lib/encap_challenge_auth.c): the requester's    *)
(* handler of an encapsulated SPDM CHALLENGE request.                      *)
(*                                                                         *)
(* Messages, the caller's response buffer and the transcript               *)
(* (message_mut_c) are sequences of bytes.  One invocation is a sequence   *)
(* of steps, one per block of the function, so that the order of the       *)
(* transcript appends and of the signer call is part of the model.         *)
(***************************************************************************)
EXTENDS Integers, Sequences, FiniteSets, TLC

(***************************************************************************)
(* Protocol constants used by the function.                                *)
(***************************************************************************)
SPDM_MESSAGE_VERSION_10 == 16
SPDM_MESSAGE_VERSION_11 == 17
SPDM_CHALLENGE == 131
SPDM_CHALLENGE_AUTH == 3
SPDM_ERROR == 127
SPDM_ERROR_CODE_INVALID_REQUEST == 1
SPDM_ERROR_CODE_UNSUPPORTED_REQUEST == 7
SPDM_NONCE_SIZE == 32
SizeofChallengeRequest == 36
SizeofChallengeAuthResponse == 4
SizeofErrorResponse == 4
SizeofUint16 == 2
SentinelSlot == 255

RETURN_SUCCESS == "RETURN_SUCCESS"
RETURN_BUFFER_TOO_SMALL == "RETURN_BUFFER_TOO_SMALL"
NoStatus == "none"

(***************************************************************************)
(* Bounds of the model.                                                    *)
(***************************************************************************)
MaxCalls == 1
MaxFollowUps == 1

\* Invocations: those that may exist, and those the serialized system runs.
AllProcs == {1, 2}
Procs == {1}
FillByte == 204
RequestNonceByte == 17
NonceSeeds == {160, 176}
SlotCounts == {4, 255}
ProvisionedSlots == {0, 1}
RequestSlots == {0, 2, 4, 8, 33, 255}
HashAlgos == {"SHA_256", "SHA_384"}
ReqAsymAlgos == {"ECDSA_P256", "ECDSA_P384"}
OpaqueBlobs == {<<>>, <<208, 209, 210>>}
CapabilityFlagSets == {{"CERT_CAP"}, {"CERT_CAP", "CHAL_CAP"}}
VersionSets == {{SPDM_MESSAGE_VERSION_10},
                {SPDM_MESSAGE_VERSION_10, SPDM_MESSAGE_VERSION_11}}
TranscriptCapacities == {30, 100, 256}

(***************************************************************************)
(* Byte-buffer helpers.                                                    *)
(***************************************************************************)
Max(a, b) == IF a >= b THEN a ELSE b

Fill(n, b) == [i \in 1..n |-> b]

\* Bytes [off, off+n) of a buffer (off counted from 0).
Slice(buf, off, n) == [i \in 1..n |-> buf[off + i]]

\* Store `bytes` at offset `off` of the memory that starts at a buffer's
\* address.  A store past the end of the sequence lands in the memory that
\* follows the buffer, which the sequence then also shows.
WriteAt(mem, off, bytes) ==
    LET n == Len(mem)
        k == Len(bytes)
    IN  [i \in 1..Max(n, off + k) |->
            IF i > off /\ i <= off + k THEN bytes[i - off]
            ELSE IF i <= n THEN mem[i]
            ELSE FillByte]

VARIABLES
    spdm_context,       \* local_context and connection_info: configuration
    message_mut_c,      \* spdm_context->transcript.message_mut_c
    pc,                 \* position of each invocation
    request,            \* request bytes (request_size = Len(request))
    capacity,           \* *response_size on input
    response,           \* memory at the response pointer
    response_size,      \* *response_size
    status,             \* value returned to the caller
    slot_id,            \* local slot_id
    total_size,         \* local total_size
    ptr,                \* local ptr, as an offset from response
    log,                \* collaborator calls made by the invocation
    transcript_before,  \* message_mut_c when the invocation started
    calls               \* number of invocations started

vars == <<spdm_context, message_mut_c, pc, request, capacity, response,
          response_size, status, slot_id, total_size, ptr, log,
          transcript_before, calls>>

(***************************************************************************)
(* Collaborators of the function (other files of the library).             *)
(***************************************************************************)

\* TRUE iff the negotiated requester capability flags contain `flag`.
spdm_is_capabilities_flag_supported(ctx, flag) == flag \in ctx.capability_flags

spdm_is_version_supported(ctx, version) == version \in ctx.versions

spdm_get_hash_size(base_hash_algo) ==
    IF base_hash_algo = "SHA_256" THEN 32
    ELSE IF base_hash_algo = "SHA_384" THEN 48
    ELSE 64

spdm_get_req_asym_signature_size(req_base_asym_alg) ==
    IF req_base_asym_alg = "ECDSA_P256" THEN 64
    ELSE IF req_base_asym_alg = "ECDSA_P384" THEN 96
    ELSE 132

\* Digest of the certificate chain of `slot`: the bytes depend on the slot.
spdm_generate_cert_chain_hash(ctx, slot) ==
    LET b == (192 + slot) % 256
    IN  [i \in 1..spdm_get_hash_size(ctx.base_hash_algo) |-> b]

\* The random source, drawn from `seed`.
spdm_get_random_number(size, seed) == [i \in 1..size |-> (seed + i) % 256]

\* The signer is handed the context, the role and the place of the
\* signature (lines 146-147): no slot.  Which slot's key it signs with is
\* its own decision; it is left open, at every call, among the slots that
\* can hold a key.
SignerSlots(ctx) == ProvisionedSlots

\* Signature over the transcript with the key of the signer's slot.
spdm_generate_challenge_auth_signature(ctx, transcript, key_slot) ==
    LET b == (80 + 16 * key_slot + Len(transcript)) % 256
    IN  [i \in 1..spdm_get_req_asym_signature_size(ctx.req_base_asym_alg) |-> b]

\* append_managed_buffer: the append is refused when it does not fit.
AppendFits(ctx, transcript, message) ==
    Len(message) <= ctx.max_buffer_size - Len(transcript)

spdm_append_message_mut_c(ctx, transcript, message) ==
    IF AppendFits(ctx, transcript, message) THEN transcript \o message
    ELSE transcript

\* The fixed-size error message, written at the start of the response buffer.
spdm_generate_encap_error_response(error_code, error_data, mem) ==
    WriteAt(mem, 0, <<SPDM_MESSAGE_VERSION_10, SPDM_ERROR, error_code, error_data>>)

(***************************************************************************)
(* The function's own computations.                                        *)
(***************************************************************************)

\* Mutant: the gate tests another capability flag.
ChallengeCapabilitySupported_Mut(ctx) ==
    spdm_is_capabilities_flag_supported(ctx, "CERT_CAP")

\* lines 46-48
ChallengeCapabilitySupported(ctx) ==
    spdm_is_capabilities_flag_supported(ctx, "CHAL_CAP")

\* Mutant: only an over-long request is refused.
RequestSizeValid_Mut(request_size) == request_size <= SizeofChallengeRequest

\* line 55
RequestSizeValid(request_size) == request_size = SizeofChallengeRequest

\* line 62: spdm_request->header.param1
RequestSlotId(req) == req[3]

\* Mutant: off-by-one in the slot bound.
SlotIdValid_Mut(slot, ctx) == ~(slot # SentinelSlot /\ slot > ctx.slot_count)

\* lines 64-65
SlotIdValid(slot, ctx) == ~(slot # SentinelSlot /\ slot >= ctx.slot_count)

\* Mutant: the opaque-data length field is left out of the total.
TotalSize_Mut(ctx) ==
    SizeofChallengeAuthResponse + spdm_get_hash_size(ctx.base_hash_algo) +
    SPDM_NONCE_SIZE + 0 +
    ctx.opaque_challenge_auth_rsp_size +
    spdm_get_req_asym_signature_size(ctx.req_base_asym_alg)

\* lines 84-95
TotalSize(ctx) ==
    SizeofChallengeAuthResponse + spdm_get_hash_size(ctx.base_hash_algo) +
    SPDM_NONCE_SIZE + 0 + SizeofUint16 +
    ctx.opaque_challenge_auth_rsp_size +
    spdm_get_req_asym_signature_size(ctx.req_base_asym_alg)

\* Mutant: the version of the request's era is chosen the wrong way round.
ResponseVersion_Mut(ctx) ==
    IF spdm_is_version_supported(ctx, SPDM_MESSAGE_VERSION_11)
    THEN SPDM_MESSAGE_VERSION_10
    ELSE SPDM_MESSAGE_VERSION_11

\* lines 102-106
ResponseVersion(ctx) ==
    IF spdm_is_version_supported(ctx, SPDM_MESSAGE_VERSION_11)
    THEN SPDM_MESSAGE_VERSION_11
    ELSE SPDM_MESSAGE_VERSION_10

\* lines 108-111: slot_id:4, reserved:3, basic_mut_auth_req:1 packed in a byte
AuthAttribute(slot) == (slot % 16) + 16 * 0 + 128 * 0

\* Mutant: the slot number is stored instead of the shifted bit.
SlotMaskOutcomes_Mut(slot) == {slot % 256}

\* line 112: (1 << slot_id) is an int expression stored in a uint8.  A shift
\* by 32 or more is undefined: it yields 0 or shifts by the count modulo 32,
\* and one build can do the one in one call and the other in the next.
SlotMaskOutcomes(slot) ==
    IF slot < 31 THEN {(2 ^ slot) % 256}
    ELSE IF slot = 31 THEN {0}
    ELSE {0, (2 ^ (slot % 32)) % 256}

\* lines 112-115
Param2Outcomes(slot) ==
    IF slot = SentinelSlot THEN {0} ELSE SlotMaskOutcomes(slot)

\* line 112 with a selector of 32 or more that is not the sentinel: the
\* shift is undefined and its result reaches the response.
ShiftUndefined(slot) == slot >= 32 /\ slot # SentinelSlot

\* Mutant: the sentinel is not replaced by the provisioned slot.
ResolveSlot_Mut(slot, ctx) == slot

\* lines 113-117
ResolveSlot(slot, ctx) ==
    IF slot = SentinelSlot THEN ctx.provisioned_slot_id ELSE slot

\* lines 128-129: *(uint16 *)ptr = (uint16)opaque size, little-endian
OpaqueLengthField(ctx) ==
    << ctx.opaque_challenge_auth_rsp_size % 256,
       (ctx.opaque_challenge_auth_rsp_size \div 256) % 256 >>

\* Mutant: ptr is not advanced past the digest, so the nonce lands on it.
BuildFields_Mut(ctx, mem, slot, param2, seed) ==
    LET hash_size == spdm_get_hash_size(ctx.base_hash_algo)
        m0 == WriteAt(mem, 0, Fill(TotalSize(ctx), 0))
        m1 == WriteAt(m0, 0, <<ResponseVersion(ctx), SPDM_CHALLENGE_AUTH,
                               AuthAttribute(slot), param2>>)
        p1 == SizeofChallengeAuthResponse
        m2 == WriteAt(m1, p1, spdm_generate_cert_chain_hash(ctx, ResolveSlot(slot, ctx)))
        m3 == WriteAt(m2, p1, spdm_get_random_number(SPDM_NONCE_SIZE, seed))
        p3 == p1 + hash_size + SPDM_NONCE_SIZE
        m4 == WriteAt(m3, p3, OpaqueLengthField(ctx))
        p5 == p3 + SizeofUint16
        m5 == WriteAt(m4, p5, Slice(ctx.opaque_challenge_auth_rsp, 0,
                                    ctx.opaque_challenge_auth_rsp_size))
        p6 == p5 + ctx.opaque_challenge_auth_rsp_size
    IN  [mem |-> m5, ptr |-> p6]

\* lines 98-133: the response as built before signing.  The result is the
\* memory at the response pointer and the final value of ptr.
BuildFields(ctx, mem, slot, param2, seed) ==
    LET hash_size == spdm_get_hash_size(ctx.base_hash_algo)
        m0 == WriteAt(mem, 0, Fill(TotalSize(ctx), 0))
        m1 == WriteAt(m0, 0, <<ResponseVersion(ctx), SPDM_CHALLENGE_AUTH,
                               AuthAttribute(slot), param2>>)
        p1 == SizeofChallengeAuthResponse
        m2 == WriteAt(m1, p1, spdm_generate_cert_chain_hash(ctx, ResolveSlot(slot, ctx)))
        p2 == p1 + hash_size
        m3 == WriteAt(m2, p2, spdm_get_random_number(SPDM_NONCE_SIZE, seed))
        p3 == p2 + SPDM_NONCE_SIZE
        p4 == p3 + 0
        m4 == WriteAt(m3, p4, OpaqueLengthField(ctx))
        p5 == p4 + SizeofUint16
        m5 == WriteAt(m4, p5, Slice(ctx.opaque_challenge_auth_rsp, 0,
                                    ctx.opaque_challenge_auth_rsp_size))
        p6 == p5 + ctx.opaque_challenge_auth_rsp_size
    IN  [mem |-> m5, ptr |-> p6]

\* Mutant: the signer's failure names the request code.
SignFailureErrorData_Mut == SPDM_CHALLENGE

\* lines 149-151: the error data sent when the signer fails
SignFailureErrorData == SPDM_CHALLENGE_AUTH

\* Mutant: the assignment of line 116 is written the wrong way round.
ContextAfterResolve_Mut(ctx, slot) ==
    IF slot = SentinelSlot THEN [ctx EXCEPT !.provisioned_slot_id = slot] ELSE ctx

\* lines 113-117: the context is read, never stored to
ContextAfterResolve(ctx, slot) == ctx

\* Mutant: the append's status is passed on to the caller.
RequestAppendErrorReturn_Mut(append_status) == append_status

\* Mutant: the signature region is appended with the rest of the response.
ResponseTranscriptSize_Mut(ctx, ptr_offset) == TotalSize(ctx)

\* line 139: (uintn)ptr - (uintn)spdm_response
ResponseTranscriptSize(ctx, ptr_offset) == ptr_offset - 0

\* line 81: the value returned after a refused request append
RequestAppendErrorReturn(append_status) == RETURN_SUCCESS

(***************************************************************************)
(* Inputs.                                                                 *)
(***************************************************************************)
MkRequest(version, slot, size) ==
    [i \in 1..size |->
        IF i = 1 THEN version
        ELSE IF i = 2 THEN SPDM_CHALLENGE
        ELSE IF i = 3 THEN slot
        ELSE IF i = 4 THEN 0
        ELSE RequestNonceByte]

Requests ==
    {MkRequest(SPDM_MESSAGE_VERSION_11, s, SizeofChallengeRequest) : s \in RequestSlots}
    \cup {MkRequest(SPDM_MESSAGE_VERSION_10, 0, SizeofChallengeRequest)}
    \cup {MkRequest(SPDM_MESSAGE_VERSION_11, 0, n) :
            n \in {SizeofChallengeRequest - 1, SizeofChallengeRequest + 1}}

Capacities(ctx) == {TotalSize(ctx) - 1, TotalSize(ctx)}

\* The transcript left by one earlier exchange on the same context: its
\* request, then its response up to the signature.
PriorTranscript(ctx) ==
    LET built == BuildFields(ctx, <<>>, 0, 1, 160)
    IN  MkRequest(SPDM_MESSAGE_VERSION_11, 0, SizeofChallengeRequest)
            \o Slice(built.mem, 0, built.ptr)

Contexts ==
    [ capability_flags : CapabilityFlagSets,
      versions : VersionSets,
      slot_count : SlotCounts,
      provisioned_slot_id : ProvisionedSlots,
      base_hash_algo : HashAlgos,
      req_base_asym_alg : ReqAsymAlgos,
      opaque_challenge_auth_rsp : OpaqueBlobs,
      opaque_challenge_auth_rsp_size : {0, 3},
      max_buffer_size : TranscriptCapacities ]

Init ==
    /\ spdm_context \in {c \in Contexts :
            c.opaque_challenge_auth_rsp_size = Len(c.opaque_challenge_auth_rsp)}
    /\ message_mut_c \in {t \in {<<>>, PriorTranscript(spdm_context)} :
                            Len(t) <= spdm_context.max_buffer_size}
    /\ pc = [p \in AllProcs |-> "idle"]
    /\ request = [p \in AllProcs |-> <<>>]
    /\ capacity = [p \in AllProcs |-> 0]
    /\ response = [p \in AllProcs |-> <<>>]
    /\ response_size = [p \in AllProcs |-> 0]
    /\ status = [p \in AllProcs |-> NoStatus]
    /\ slot_id = [p \in AllProcs |-> 0]
    /\ total_size = [p \in AllProcs |-> 0]
    /\ ptr = [p \in AllProcs |-> 0]
    /\ log = [p \in AllProcs |-> <<>>]
    /\ transcript_before = [p \in AllProcs |-> <<>>]
    /\ calls = 0

LogEntry(op, arg) == [op |-> op, arg |-> arg]

\* spdm_generate_encap_error_response(...); return RETURN_SUCCESS;
EmitError(p, error_code, error_data, ret) ==
    /\ response' = [response EXCEPT ![p] =
            spdm_generate_encap_error_response(error_code, error_data, response[p])]
    /\ response_size' = [response_size EXCEPT ![p] = SizeofErrorResponse]
    /\ log' = [log EXCEPT ![p] = Append(@, LogEntry("error_response", error_code))]
    /\ status' = [status EXCEPT ![p] = ret]
    /\ pc' = [pc EXCEPT ![p] = "done"]

Idle(p) == pc[p] \in {"idle", "done"}

\* The session layer hands a request and a response buffer to the function.
\* Invocations on one context are serialized by the caller.
Invoke(p) ==
    /\ \A q \in AllProcs : Idle(q)
    /\ \E req \in Requests, cap \in Capacities(spdm_context) :
        /\ request' = [request EXCEPT ![p] = req]
        /\ capacity' = [capacity EXCEPT ![p] = cap]
        /\ response' = [response EXCEPT ![p] = Fill(cap, FillByte)]
        /\ response_size' = [response_size EXCEPT ![p] = cap]
    /\ status' = [status EXCEPT ![p] = NoStatus]
    /\ slot_id' = [slot_id EXCEPT ![p] = 0]
    /\ total_size' = [total_size EXCEPT ![p] = 0]
    /\ ptr' = [ptr EXCEPT ![p] = 0]
    /\ log' = [log EXCEPT ![p] = <<>>]
    /\ transcript_before' = [transcript_before EXCEPT ![p] = message_mut_c]
    /\ pc' = [pc EXCEPT ![p] = "gate"]
    /\ calls' = calls + 1
    /\ UNCHANGED <<spdm_context, message_mut_c>>

Call(p) == calls < MaxCalls /\ Invoke(p)

\* lines 46-53
Gate(p) ==
    /\ pc[p] = "gate"
    /\ IF ~ChallengeCapabilitySupported(spdm_context)
       THEN EmitError(p, SPDM_ERROR_CODE_UNSUPPORTED_REQUEST, SPDM_CHALLENGE,
                      RETURN_SUCCESS)
       ELSE /\ pc' = [pc EXCEPT ![p] = "validate"]
            /\ UNCHANGED <<response, response_size, log, status>>
    /\ UNCHANGED <<spdm_context, message_mut_c, request, capacity, slot_id,
                   total_size, ptr, transcript_before, calls>>

\* lines 55-70
ValidateRequest(p) ==
    /\ pc[p] = "validate"
    /\ IF ~RequestSizeValid(Len(request[p]))
       THEN /\ EmitError(p, SPDM_ERROR_CODE_INVALID_REQUEST, 0, RETURN_SUCCESS)
            /\ UNCHANGED slot_id
       ELSE /\ slot_id' = [slot_id EXCEPT ![p] = RequestSlotId(request[p])]
            /\ IF ~SlotIdValid(RequestSlotId(request[p]), spdm_context)
               THEN EmitError(p, SPDM_ERROR_CODE_INVALID_REQUEST, 0, RETURN_SUCCESS)
               ELSE /\ pc' = [pc EXCEPT ![p] = "cache_req"]
                    /\ UNCHANGED <<response, response_size, log, status>>
    /\ UNCHANGED <<spdm_context, message_mut_c, request, capacity, total_size,
                   ptr, transcript_before, calls>>

\* Mutant: the status of the request append is not tested.
CacheRequest_Mut(p) ==
    /\ pc[p] = "cache_req"
    /\ message_mut_c' = spdm_append_message_mut_c(spdm_context, message_mut_c, request[p])
    /\ pc' = [pc EXCEPT ![p] = "build"]
    /\ log' = [log EXCEPT ![p] =
            IF AppendFits(spdm_context, message_mut_c, request[p])
            THEN Append(@, LogEntry("append_request", Len(request[p])))
            ELSE @]
    /\ UNCHANGED <<spdm_context, request, capacity, response, response_size,
                   status, slot_id, total_size, ptr, transcript_before, calls>>

\* lines 72-82
CacheRequest(p) ==
    /\ pc[p] = "cache_req"
    /\ message_mut_c' = spdm_append_message_mut_c(spdm_context, message_mut_c, request[p])
    /\ IF ~AppendFits(spdm_context, message_mut_c, request[p])
       THEN EmitError(p, SPDM_ERROR_CODE_INVALID_REQUEST, 0,
                      RequestAppendErrorReturn(RETURN_BUFFER_TOO_SMALL))
       ELSE /\ pc' = [pc EXCEPT ![p] = "build"]
            /\ log' = [log EXCEPT ![p] = Append(@, LogEntry("append_request", Len(request[p])))]
            /\ UNCHANGED <<response, response_size, status>>
    /\ UNCHANGED <<spdm_context, request, capacity, slot_id, total_size, ptr,
                   transcript_before, calls>>

\* lines 84-133.  ASSERT(*response_size >= total_size): a build with
\* assertions halts there; a build without them goes on and writes past the
\* end of the caller's buffer.
BuildResponse(p) ==
    /\ pc[p] = "build"
    /\ total_size' = [total_size EXCEPT ![p] = TotalSize(spdm_context)]
    /\ \/ /\ capacity[p] < TotalSize(spdm_context)
          /\ pc' = [pc EXCEPT ![p] = "halted"]
          /\ UNCHANGED <<spdm_context, response, response_size, slot_id, ptr, log>>
       \/ \E param2 \in Param2Outcomes(slot_id[p]), seed \in NonceSeeds :
            LET built == BuildFields(spdm_context, response[p], slot_id[p], param2, seed)
            IN  /\ response_size' = [response_size EXCEPT ![p] = TotalSize(spdm_context)]
                /\ response' = [response EXCEPT ![p] = built.mem]
                /\ ptr' = [ptr EXCEPT ![p] = built.ptr]
                /\ slot_id' = [slot_id EXCEPT ![p] = ResolveSlot(slot_id[p], spdm_context)]
                /\ log' = [log EXCEPT ![p] = @ \o
                        << LogEntry("zero_mem", TotalSize(spdm_context)),
                           LogEntry("cert_chain_hash", ResolveSlot(slot_id[p], spdm_context)),
                           LogEntry("random_number", SPDM_NONCE_SIZE) >>]
                /\ pc' = [pc EXCEPT ![p] = "cache_rsp"]
                /\ spdm_context' = ContextAfterResolve(spdm_context, slot_id[p])
    /\ UNCHANGED <<message_mut_c, request, capacity, status,
                   transcript_before, calls>>

\* Mutant: the status of the response append is not tested.
CacheResponse_Mut(p) ==
    /\ pc[p] = "cache_rsp"
    /\ LET message == Slice(response[p], 0, ResponseTranscriptSize(spdm_context, ptr[p]))
       IN  /\ message_mut_c' = spdm_append_message_mut_c(spdm_context, message_mut_c, message)
           /\ log' = [log EXCEPT ![p] =
                   IF AppendFits(spdm_context, message_mut_c, message)
                   THEN Append(@, LogEntry("append_response", ptr[p]))
                   ELSE @]
    /\ pc' = [pc EXCEPT ![p] = "sign"]
    /\ UNCHANGED <<spdm_context, request, capacity, response, response_size,
                   status, slot_id, total_size, ptr, transcript_before, calls>>

\* lines 135-145
CacheResponse(p) ==
    /\ pc[p] = "cache_rsp"
    /\ LET message == Slice(response[p], 0, ResponseTranscriptSize(spdm_context, ptr[p]))
       IN  /\ message_mut_c' = spdm_append_message_mut_c(spdm_context, message_mut_c, message)
           /\ IF ~AppendFits(spdm_context, message_mut_c, message)
              THEN EmitError(p, SPDM_ERROR_CODE_INVALID_REQUEST, 0, RETURN_SUCCESS)
              ELSE /\ pc' = [pc EXCEPT ![p] = "sign"]
                   /\ log' = [log EXCEPT ![p] = Append(@, LogEntry("append_response", ptr[p]))]
                   /\ UNCHANGED <<response, response_size, status>>
    /\ UNCHANGED <<spdm_context, request, capacity, slot_id, total_size, ptr,
                   transcript_before, calls>>

\* lines 146-156.  Whether the signer has key material is the environment's.
Sign(p) ==
    /\ pc[p] = "sign"
    /\ \E result \in BOOLEAN, key_slot \in SignerSlots(spdm_context) :
           IF ~result
           THEN /\ response' = [response EXCEPT ![p] =
                       spdm_generate_encap_error_response(
                           SPDM_ERROR_CODE_UNSUPPORTED_REQUEST, SignFailureErrorData,
                           response[p])]
                /\ response_size' = [response_size EXCEPT ![p] = SizeofErrorResponse]
                /\ log' = [log EXCEPT ![p] = @ \o
                       << LogEntry("sign_failed", ptr[p]),
                          LogEntry("error_response", SPDM_ERROR_CODE_UNSUPPORTED_REQUEST) >>]
                /\ UNCHANGED ptr
           ELSE /\ response' = [response EXCEPT ![p] =
                       WriteAt(response[p], ptr[p],
                               spdm_generate_challenge_auth_signature(
                                   spdm_context, message_mut_c, key_slot))]
                /\ ptr' = [ptr EXCEPT ![p] =
                       @ + spdm_get_req_asym_signature_size(spdm_context.req_base_asym_alg)]
                /\ log' = [log EXCEPT ![p] = Append(@, LogEntry("sign", key_slot))]
                /\ UNCHANGED response_size
    /\ status' = [status EXCEPT ![p] = RETURN_SUCCESS]
    /\ pc' = [pc EXCEPT ![p] = "done"]
    /\ UNCHANGED <<spdm_context, message_mut_c, request, capacity, slot_id,
                   total_size, transcript_before, calls>>

Next ==
    \E p \in Procs :
        \/ Call(p)
        \/ Gate(p)
        \/ ValidateRequest(p)
        \/ CacheRequest(p)
        \/ BuildResponse(p)
        \/ CacheResponse(p)
        \/ Sign(p)

Spec == Init /\ [][Next]_vars

(***************************************************************************)
(* Sequences of exchanges on one context: after the first MaxCalls         *)
(* exchanges the session layer goes on with up to MaxFollowUps more.  The  *)
(* contexts are those with the capability negotiated.                      *)
(***************************************************************************)
SeqContexts ==
    {c \in Contexts :
        /\ "CHAL_CAP" \in c.capability_flags
        /\ SPDM_MESSAGE_VERSION_11 \in c.versions
        /\ c.slot_count = 4
        /\ c.provisioned_slot_id = 1
        /\ c.req_base_asym_alg = "ECDSA_P256"
        /\ c.opaque_challenge_auth_rsp = <<>>}

InitSeq == Init /\ spdm_context \in SeqContexts

FollowUpCall(p) ==
    /\ calls >= MaxCalls
    /\ calls < MaxCalls + MaxFollowUps
    /\ Invoke(p)

NextSeq == Next \/ \E p \in Procs : FollowUpCall(p)

SpecSeq == InitSeq /\ [][NextSeq]_vars

(***************************************************************************)
(* Overlapping invocations.  The function takes no lock (no lock or        *)
(* critical section anywhere in lines 26-157), so a caller that does not   *)
(* serialize can enter it for invocation p while another invocation is     *)
(* between two of its steps.  Each invocation is entered once.  The entry  *)
(* is noted in the trace of p, with 1 when another invocation is running,  *)
(* and in the trace of every invocation that is running.                   *)
(***************************************************************************)
Running(p) == ~Idle(p)

OverlapContexts ==
    {c \in SeqContexts : c.base_hash_algo = "SHA_256" /\ c.max_buffer_size = 256}

InitOverlap == Init /\ spdm_context \in OverlapContexts

\* Requests of the size the function accepts, for a provisioned slot and
\* for a slot the context does not have.
OverlapRequests ==
    {r \in Requests : RequestSizeValid(Len(r)) /\ RequestSlotId(r) \in {0, 4}}

CallOverlap(p) ==
    /\ pc[p] = "idle"
    /\ \E req \in OverlapRequests, cap \in Capacities(spdm_context) :
        /\ request' = [request EXCEPT ![p] = req]
        /\ capacity' = [capacity EXCEPT ![p] = cap]
        /\ response' = [response EXCEPT ![p] = Fill(cap, FillByte)]
        /\ response_size' = [response_size EXCEPT ![p] = cap]
    /\ status' = [status EXCEPT ![p] = NoStatus]
    /\ slot_id' = [slot_id EXCEPT ![p] = 0]
    /\ total_size' = [total_size EXCEPT ![p] = 0]
    /\ ptr' = [ptr EXCEPT ![p] = 0]
    /\ log' = [q \in AllProcs |->
                 IF q = p
                 THEN <<LogEntry("call",
                                 IF \E o \in AllProcs : Running(o) THEN 1 ELSE 0)>>
                 ELSE IF Running(q)
                      THEN Append(log[q], LogEntry("overlap", p))
                      ELSE log[q]]
    /\ transcript_before' = [transcript_before EXCEPT ![p] = message_mut_c]
    /\ pc' = [pc EXCEPT ![p] = "gate"]
    /\ calls' = calls + 1
    /\ UNCHANGED <<spdm_context, message_mut_c>>

NextOverlap ==
    \E p \in AllProcs :
        \/ CallOverlap(p)
        \/ Gate(p)
        \/ ValidateRequest(p)
        \/ CacheRequest(p)
        \/ BuildResponse(p)
        \/ CacheResponse(p)
        \/ Sign(p)

SpecOverlap == InitOverlap /\ [][NextOverlap]_vars

(***************************************************************************)
(* Two exchanges from identical contexts.  When the first exchange has     *)
(* returned, its inputs and outputs are recorded as invocation q, the      *)
(* transcript is put back to what it was before the exchange, and the same *)
(* request is handed to the function again with a fresh buffer; the random *)
(* source is free to return another nonce.                                 *)
(***************************************************************************)
ReplayContexts ==
    {c \in Contexts :
        /\ "CHAL_CAP" \in c.capability_flags
        /\ c.provisioned_slot_id = 1
        /\ c.base_hash_algo = "SHA_256"
        /\ c.req_base_asym_alg = "ECDSA_P256"
        /\ c.max_buffer_size = 256}

InitReplay == Init /\ spdm_context \in ReplayContexts

Replay(p, q) ==
    /\ calls = 1
    /\ pc[p] = "done"
    /\ pc[q] = "idle"
    /\ message_mut_c' = transcript_before[p]
    /\ request' = [request EXCEPT ![q] = request[p]]
    /\ capacity' = [capacity EXCEPT ![q] = capacity[p]]
    /\ transcript_before' = [transcript_before EXCEPT ![q] = transcript_before[p]]
    /\ response' = [response EXCEPT ![q] = response[p],
                                    ![p] = Fill(capacity[p], FillByte)]
    /\ response_size' = [response_size EXCEPT ![q] = response_size[p], ![p] = capacity[p]]
    /\ status' = [status EXCEPT ![q] = status[p], ![p] = NoStatus]
    /\ slot_id' = [slot_id EXCEPT ![q] = slot_id[p], ![p] = 0]
    /\ total_size' = [total_size EXCEPT ![q] = total_size[p], ![p] = 0]
    /\ ptr' = [ptr EXCEPT ![q] = ptr[p], ![p] = 0]
    /\ log' = [log EXCEPT ![q] = log[p], ![p] = <<>>]
    /\ pc' = [pc EXCEPT ![q] = "recorded", ![p] = "gate"]
    /\ UNCHANGED <<spdm_context, calls>>

NextReplay == Next \/ Replay(1, 2)

SpecReplay == InitReplay /\ [][NextReplay]_vars

(***************************************************************************)
(* Observations of a finished invocation.                                  *)
(***************************************************************************)
Returned(p) == pc[p] = "done"

\* The output is the fixed-size error message with this code and data.
IsErrorMessage(p, error_code, error_data) ==
    /\ response_size[p] = SizeofErrorResponse
    /\ response[p][2] = SPDM_ERROR
    /\ response[p][3] = error_code
    /\ response[p][4] = error_data

IsAnyErrorMessage(p) ==
    /\ response_size[p] = SizeofErrorResponse
    /\ response[p][2] = SPDM_ERROR

IsChallengeAuth(p) == response[p][2] = SPDM_CHALLENGE_AUTH

Succeeded(p) == Returned(p) /\ IsChallengeAuth(p)

TranscriptUnmodified(p) == message_mut_c = transcript_before[p]

HasLog(p, op) == \E i \in 1..Len(log[p]) : log[p][i].op = op

LogArg(p, op) == log[p][CHOOSE i \in 1..Len(log[p]) : log[p][i].op = op].arg

HashSize == spdm_get_hash_size(spdm_context.base_hash_algo)
SignatureSize == spdm_get_req_asym_signature_size(spdm_context.req_base_asym_alg)
OpaqueSize == spdm_context.opaque_challenge_auth_rsp_size

(***************************************************************************)
(* C1.  Every invocation that returns, returns RETURN_SUCCESS, and its     *)
(* output is a CHALLENGE_AUTH response or an error message; no path hands  *)
(* a failure status to the caller.                                         *)
(***************************************************************************)
C1_AlwaysReturnsSuccess ==
    \A p \in AllProcs :
        /\ status[p] \in {NoStatus, RETURN_SUCCESS}
        /\ Returned(p) =>
            /\ status[p] = RETURN_SUCCESS
            /\ IsAnyErrorMessage(p) \/ IsChallengeAuth(p)

\* An invocation whose request append was refused has returned.
C1_Witness ==
    \E p \in AllProcs :
        /\ Returned(p)
        /\ ChallengeCapabilitySupported(spdm_context)
        /\ RequestSizeValid(Len(request[p]))
        /\ SlotIdValid(RequestSlotId(request[p]), spdm_context)
        /\ ~HasLog(p, "append_request")
        /\ status[p] = RETURN_SUCCESS
        /\ IsErrorMessage(p, SPDM_ERROR_CODE_INVALID_REQUEST, 0)

(***************************************************************************)
(* C2 as stated.  A request of the wrong size gets an InvalidRequest error *)
(* of the fixed size and leaves the transcript alone, whatever the state   *)
(* of the context.                                                         *)
(***************************************************************************)
C2_Original ==
    \A p \in AllProcs :
        (Returned(p) /\ Len(request[p]) # SizeofChallengeRequest) =>
            /\ IsErrorMessage(p, SPDM_ERROR_CODE_INVALID_REQUEST, 0)
            /\ TranscriptUnmodified(p)

(***************************************************************************)
(* C2 as amended.  When CHAL_CAP is negotiated, a request of the wrong     *)
(* size gets an InvalidRequest error of the fixed size and leaves the      *)
(* transcript alone.                                                       *)
(***************************************************************************)
C2_WrongSizeInvalidRequest ==
    \A p \in AllProcs :
        (/\ Returned(p)
         /\ Len(request[p]) # SizeofChallengeRequest
         /\ "CHAL_CAP" \in spdm_context.capability_flags) =>
            /\ IsErrorMessage(p, SPDM_ERROR_CODE_INVALID_REQUEST, 0)
            /\ TranscriptUnmodified(p)

\* A request one byte short has been answered, with the capability negotiated.
C2_Witness ==
    \E p \in AllProcs :
        /\ Returned(p)
        /\ Len(request[p]) = SizeofChallengeRequest - 1
        /\ "CHAL_CAP" \in spdm_context.capability_flags
        /\ transcript_before[p] # <<>>
        /\ IsErrorMessage(p, SPDM_ERROR_CODE_INVALID_REQUEST, 0)

(***************************************************************************)
(* C3.  Without CHAL_CAP every request, of any size and slot selector,     *)
(* gets an UnsupportedRequest error naming SPDM_CHALLENGE and leaves the   *)
(* transcript alone.                                                       *)
(***************************************************************************)
C3_NoCapabilityUnsupportedRequest ==
    \A p \in AllProcs :
        (Returned(p) /\ "CHAL_CAP" \notin spdm_context.capability_flags) =>
            /\ IsErrorMessage(p, SPDM_ERROR_CODE_UNSUPPORTED_REQUEST, SPDM_CHALLENGE)
            /\ TranscriptUnmodified(p)

\* A request of the wrong size has been answered without the capability.
C3_Witness ==
    \E p \in AllProcs :
        /\ Returned(p)
        /\ "CHAL_CAP" \notin spdm_context.capability_flags
        /\ Len(request[p]) # SizeofChallengeRequest
        /\ IsErrorMessage(p, SPDM_ERROR_CODE_UNSUPPORTED_REQUEST, SPDM_CHALLENGE)

(***************************************************************************)
(* C4 as stated.  For an explicit slot selector s the slot bitmask byte    *)
(* equals 1 << s and the low nibble of the attribute byte equals s & 0xF.  *)
(* 1 << s is at least 256 from s = 8 on, which no byte equals.  Stated for *)
(* exchanges whose response buffer is large enough.                        *)
(***************************************************************************)
C4_Original ==
    \A p \in AllProcs :
        (/\ Succeeded(p)
         /\ capacity[p] >= total_size[p]
         /\ RequestSlotId(request[p]) # SentinelSlot) =>
            LET s == RequestSlotId(request[p])
            IN  /\ s < 8
                /\ response[p][4] = 2 ^ s
                /\ response[p][3] % 16 = s % 16

(***************************************************************************)
(* C4 as amended.  For an explicit slot selector s the low nibble of the   *)
(* attribute byte equals s & 0xF and the rest of that byte is 0; the slot  *)
(* bitmask byte equals 1 << s when s < 8, and is 0 when 8 <= s < 32.       *)
(***************************************************************************)
C4_SlotMaskAndAttribute ==
    \A p \in AllProcs :
        (Succeeded(p) /\ RequestSlotId(request[p]) # SentinelSlot) =>
            LET s == RequestSlotId(request[p])
            IN  /\ response[p][3] = s % 16
                /\ s < 8 => response[p][4] = 2 ^ s
                /\ (s >= 8 /\ s < 32) => response[p][4] = 0

\* The scenario of the specification: selector 2 of 4 slots, bitmask 0x04.
C4_Witness ==
    \E p \in AllProcs :
        /\ Succeeded(p)
        /\ spdm_context.slot_count = 4
        /\ RequestSlotId(request[p]) = 2
        /\ response[p][4] = 4
        /\ response[p][3] = 2
(***************************************************************************)
(* C5.  For the sentinel selector 0xFF the slot bitmask byte is 0 and the  *)
(* certificate-chain digest is computed for the context's                  *)
(* provisioned_slot_id, never for 0xFF.  This is the part of the claim     *)
(* that lines 112-120 decide.  The claim also says the signature is        *)
(* computed with provisioned_slot_id: the call at lines 146-147 hands the  *)
(* signer no slot, and the signer is not part of this file, so that part   *)
(* (C5_SignatureUsesProvisionedSlot) follows neither way from the code.    *)
(***************************************************************************)
C5_SentinelDigestUsesProvisionedSlot ==
    \A p \in AllProcs :
        (Succeeded(p) /\ RequestSlotId(request[p]) = SentinelSlot) =>
            /\ response[p][4] = 0
            /\ LogArg(p, "cert_chain_hash") = spdm_context.provisioned_slot_id
            /\ LogArg(p, "cert_chain_hash") # SentinelSlot
            /\ Slice(response[p], SizeofChallengeAuthResponse, HashSize)
                 = spdm_generate_cert_chain_hash(spdm_context,
                                                 spdm_context.provisioned_slot_id)

\* The signature half: it holds for a signer that takes the provisioned slot
\* from the context and fails for one that does not.
C5_SignatureUsesProvisionedSlot ==
    \A p \in AllProcs :
        (Succeeded(p) /\ RequestSlotId(request[p]) = SentinelSlot) =>
            LogArg(p, "sign") = spdm_context.provisioned_slot_id

\* The scenario of the specification: selector 0xFF, provisioned slot 1.
C5_Witness ==
    \E p \in AllProcs :
        /\ Succeeded(p)
        /\ RequestSlotId(request[p]) = SentinelSlot
        /\ spdm_context.provisioned_slot_id = 1
        /\ response[p][4] = 0
        /\ LogArg(p, "cert_chain_hash") = 1
        /\ LogArg(p, "sign") = 1

(***************************************************************************)
(* C6.  For an explicit slot selector the signer works for the same slot   *)
(* as the certificate-chain digest of the response.  Stated for exchanges  *)
(* whose response buffer is large enough.                                  *)
(***************************************************************************)
C6_SignerSlotIsDigestSlot ==
    \A p \in AllProcs :
        (/\ Succeeded(p)
         /\ capacity[p] >= total_size[p]
         /\ RequestSlotId(request[p]) # SentinelSlot) =>
            LogArg(p, "sign") = LogArg(p, "cert_chain_hash")

(***************************************************************************)
(* C7.  After a successful exchange the transcript is the transcript       *)
(* before the call, then the request bytes, then the response bytes from   *)
(* the header through the opaque data, without the signature region, and   *)
(* nothing more.                                                           *)
(***************************************************************************)
C7_TranscriptAfterSuccess ==
    \A p \in AllProcs :
        Succeeded(p) =>
            message_mut_c =
                transcript_before[p] \o request[p] \o
                Slice(response[p], 0,
                      SizeofChallengeAuthResponse + HashSize + SPDM_NONCE_SIZE +
                      SizeofUint16 + OpaqueSize)

\* A successful exchange on a transcript that already held an exchange.
C7_Witness ==
    \E p \in AllProcs :
        /\ Succeeded(p)
        /\ transcript_before[p] # <<>>
        /\ Len(message_mut_c) > Len(transcript_before[p]) + SizeofChallengeRequest

(***************************************************************************)
(* C8.  For every valid exchange *response_size is header + hash size +    *)
(* 32 + 0 + 2 + opaque length + signature size, and digest, nonce,         *)
(* opaque-data length, opaque data and signature follow the header in that *)
(* order without gaps.                                                     *)
(***************************************************************************)
C8_ResponseSizeAndLayout ==
    \A p \in AllProcs :
        Succeeded(p) =>
            LET digest_at == SizeofChallengeAuthResponse
                nonce_at == digest_at + HashSize
                length_at == nonce_at + SPDM_NONCE_SIZE + 0
                opaque_at == length_at + SizeofUint16
                signature_at == opaque_at + OpaqueSize
            IN  /\ response_size[p] = signature_at + SignatureSize
                /\ Slice(response[p], digest_at, HashSize)
                     = spdm_generate_cert_chain_hash(spdm_context, LogArg(p, "cert_chain_hash"))
                /\ \E seed \in NonceSeeds :
                     Slice(response[p], nonce_at, SPDM_NONCE_SIZE)
                       = spdm_get_random_number(SPDM_NONCE_SIZE, seed)
                /\ response[p][length_at + 1] + 256 * response[p][length_at + 2] = OpaqueSize
                /\ Slice(response[p], opaque_at, OpaqueSize)
                     = spdm_context.opaque_challenge_auth_rsp
                /\ Slice(response[p], signature_at, SignatureSize)
                     = spdm_generate_challenge_auth_signature(
                           spdm_context, message_mut_c, LogArg(p, "sign"))
                /\ ptr[p] = response_size[p]

\* The scenario of the specification: 4 slots, selector 2, hash 32,
\* signature 64, no opaque data: 134 bytes, bitmask 0x04.
C8_Witness ==
    \E p \in AllProcs :
        /\ Succeeded(p)
        /\ spdm_context.slot_count = 4
        /\ RequestSlotId(request[p]) = 2
        /\ HashSize = 32
        /\ SignatureSize = 64
        /\ OpaqueSize = 0
        /\ response_size[p] = 134
        /\ response[p][4] = 4

(***************************************************************************)
(* C9.  When the caller's buffer is smaller than the computed total size   *)
(* the operation returns RETURN_BUFFER_TOO_SMALL and sets *response_size   *)
(* to the size it needs.                                                   *)
(***************************************************************************)
C9_BufferTooSmallReported ==
    \A p \in AllProcs :
        (Returned(p) /\ HasLog(p, "zero_mem") /\ capacity[p] < total_size[p]) =>
            /\ status[p] = RETURN_BUFFER_TOO_SMALL
            /\ response_size[p] = total_size[p]

(***************************************************************************)
(* C10.  With CHAL_CAP negotiated, a request of the right size whose slot  *)
(* selector is neither 0xFF nor below slot_count gets an InvalidRequest    *)
(* error and leaves the transcript alone.                                  *)
(***************************************************************************)
C10_BadSlotInvalidRequest ==
    \A p \in AllProcs :
        (/\ Returned(p)
         /\ "CHAL_CAP" \in spdm_context.capability_flags
         /\ Len(request[p]) = SizeofChallengeRequest
         /\ request[p][3] # SentinelSlot
         /\ request[p][3] >= spdm_context.slot_count) =>
            /\ IsErrorMessage(p, SPDM_ERROR_CODE_INVALID_REQUEST, 0)
            /\ TranscriptUnmodified(p)

\* The selector equal to slot_count has been refused.
C10_Witness ==
    \E p \in AllProcs :
        /\ Returned(p)
        /\ "CHAL_CAP" \in spdm_context.capability_flags
        /\ Len(request[p]) = SizeofChallengeRequest
        /\ request[p][3] = spdm_context.slot_count
        /\ transcript_before[p] # <<>>
        /\ IsErrorMessage(p, SPDM_ERROR_CODE_INVALID_REQUEST, 0)
(***************************************************************************)
(* C11.  When the signer reports failure the output is an                  *)
(* UnsupportedRequest error whose error data is SPDM_CHALLENGE_AUTH, not   *)
(* SPDM_CHALLENGE, and the transcript keeps the two appends of this        *)
(* exchange: it is not rolled back.                                        *)
(***************************************************************************)
C11_SignerFailure ==
    \A p \in AllProcs :
        (Returned(p) /\ HasLog(p, "sign_failed")) =>
            /\ IsErrorMessage(p, SPDM_ERROR_CODE_UNSUPPORTED_REQUEST, SPDM_CHALLENGE_AUTH)
            /\ response[p][4] # SPDM_CHALLENGE
            /\ message_mut_c # transcript_before[p]
            /\ Len(message_mut_c) =
                 Len(transcript_before[p]) + SizeofChallengeRequest +
                 SizeofChallengeAuthResponse + HashSize + SPDM_NONCE_SIZE +
                 SizeofUint16 + OpaqueSize
            /\ SubSeq(message_mut_c, 1, Len(transcript_before[p]) + SizeofChallengeRequest)
                 = transcript_before[p] \o request[p]

\* The signer has failed on a transcript that already held an exchange.
C11_Witness ==
    \E p \in AllProcs :
        /\ Returned(p)
        /\ HasLog(p, "sign_failed")
        /\ transcript_before[p] # <<>>
        /\ IsErrorMessage(p, SPDM_ERROR_CODE_UNSUPPORTED_REQUEST, SPDM_CHALLENGE_AUTH)
        /\ Len(message_mut_c) > Len(transcript_before[p]) + SizeofChallengeRequest

(***************************************************************************)
(* C17.  A CHALLENGE_AUTH response carries SPDM 1.1 when the context       *)
(* supports version 1.1 and SPDM 1.0 otherwise, whatever the version byte  *)
(* of the request.                                                         *)
(***************************************************************************)
C17_ResponseVersion ==
    \A p \in AllProcs :
        Succeeded(p) =>
            /\ (SPDM_MESSAGE_VERSION_11 \in spdm_context.versions)
                 => response[p][1] = SPDM_MESSAGE_VERSION_11
            /\ (SPDM_MESSAGE_VERSION_11 \notin spdm_context.versions)
                 => response[p][1] = SPDM_MESSAGE_VERSION_10

\* A request that says 1.0 has been answered with 1.1.
C17_Witness ==
    \E p \in AllProcs :
        /\ Succeeded(p)
        /\ request[p][1] = SPDM_MESSAGE_VERSION_10
        /\ SPDM_MESSAGE_VERSION_11 \in spdm_context.versions
        /\ response[p][1] = SPDM_MESSAGE_VERSION_11
(***************************************************************************)
(* What the inputs of an invocation decide, stated without the function's  *)
(* own tests.                                                              *)
(***************************************************************************)
GateAndValidationPass(p) ==
    /\ "CHAL_CAP" \in spdm_context.capability_flags
    /\ Len(request[p]) = SizeofChallengeRequest
    /\ request[p][3] = SentinelSlot \/ request[p][3] < spdm_context.slot_count

ResponsePartSize ==
    SizeofChallengeAuthResponse + HashSize + SPDM_NONCE_SIZE + SizeofUint16 + OpaqueSize

RequestAppendRefused(p) ==
    Len(transcript_before[p]) + Len(request[p]) > spdm_context.max_buffer_size

ResponseAppendRefused(p) ==
    /\ ~RequestAppendRefused(p)
    /\ Len(transcript_before[p]) + Len(request[p]) + ResponsePartSize
         > spdm_context.max_buffer_size

\* The bytes of the destination buffer after the error message are as the
\* caller handed them over.
BufferUntouchedAfterError(p) ==
    /\ Len(response[p]) = capacity[p]
    /\ \A i \in (SizeofErrorResponse + 1)..Len(response[p]) : response[p][i] = FillByte

StepOrder ==
    <<"append_request", "zero_mem", "cert_chain_hash", "random_number",
      "append_response", "sign">>

SignerInvoked(p) == HasLog(p, "sign") \/ HasLog(p, "sign_failed")

(***************************************************************************)
(* C13.  The steps of an exchange occur in the order gate, validate,       *)
(* append request, build response, append response, sign: the signer is    *)
(* invoked only after both appends succeeded, the request is appended only *)
(* after the gate and both validations passed, and nothing is executed     *)
(* after the first failure.                                                *)
(***************************************************************************)
C13_StepOrder ==
    \A p \in AllProcs :
        /\ \A i \in 1..Len(log[p]) :
              IF log[p][i].op = "error_response"
              THEN i = Len(log[p]) /\ pc[p] = "done"
              ELSE /\ i <= Len(StepOrder)
                   /\ StepOrder[i] =
                        (IF log[p][i].op = "sign_failed" THEN "sign" ELSE log[p][i].op)
        /\ HasLog(p, "sign_failed") => log[p][Len(log[p])].op = "error_response"
        /\ HasLog(p, "append_request") => GateAndValidationPass(p)
        /\ SignerInvoked(p) =>
              /\ HasLog(p, "append_request")
              /\ HasLog(p, "append_response")
              /\ Len(message_mut_c) >=
                   Len(transcript_before[p]) + SizeofChallengeRequest + ResponsePartSize

\* The signer has been invoked, after all five earlier steps.
C13_Witness ==
    \E p \in AllProcs :
        /\ Returned(p)
        /\ Len(log[p]) = 6
        /\ log[p][1].op = "append_request"
        /\ log[p][5].op = "append_response"
        /\ log[p][6].op = "sign"

(***************************************************************************)
(* C14 as stated.  On every failure path the destination buffer holds no   *)
(* byte written by this call except the error message.  Stated for         *)
(* response buffers that are large enough.                                 *)
(***************************************************************************)
C14_Original ==
    \A p \in AllProcs :
        (Returned(p) /\ IsAnyErrorMessage(p) /\ capacity[p] >= total_size[p]) =>
            BufferUntouchedAfterError(p)

(***************************************************************************)
(* C14 as amended.  On every failure path the output is the error message  *)
(* alone, and response_size is its size.  When the failure is that of the *)
(* gate, the size, the slot or the request append, the buffer holds no     *)
(* other byte written by this call; when the response append or the signer *)
(* fails, the buffer still holds, after the error message, the digest, the *)
(* nonce and the opaque-data fields written while building the response.   *)
(***************************************************************************)
C14_ErrorOutputAndLeftovers ==
    \A p \in AllProcs :
        (Returned(p) /\ IsAnyErrorMessage(p)) =>
            /\ response_size[p] = SizeofErrorResponse
            /\ (~GateAndValidationPass(p) \/ RequestAppendRefused(p))
                  => BufferUntouchedAfterError(p)
            /\ (GateAndValidationPass(p) /\ ~RequestAppendRefused(p)) =>
                  /\ Slice(response[p], SizeofChallengeAuthResponse, HashSize)
                       = spdm_generate_cert_chain_hash(spdm_context, LogArg(p, "cert_chain_hash"))
                  /\ \E seed \in NonceSeeds :
                       Slice(response[p], SizeofChallengeAuthResponse + HashSize, SPDM_NONCE_SIZE)
                         = spdm_get_random_number(SPDM_NONCE_SIZE, seed)
                  /\ Slice(response[p], ResponsePartSize - OpaqueSize, OpaqueSize)
                       = spdm_context.opaque_challenge_auth_rsp

\* The signer has failed and the nonce is still in the buffer.
C14_Witness ==
    \E p \in AllProcs :
        /\ Returned(p)
        /\ IsAnyErrorMessage(p)
        /\ HasLog(p, "sign_failed")
        /\ capacity[p] >= total_size[p]
        /\ response[p][SizeofChallengeAuthResponse + HashSize + 1] # FillByte
        /\ response[p][SizeofChallengeAuthResponse + HashSize + 1] # 0

(***************************************************************************)
(* C15.  When the append of the request is refused the output is an        *)
(* InvalidRequest error, the transcript is unchanged and no part of the    *)
(* response is built: the buffer is not zero-filled and neither the digest *)
(* source, the random source nor the signer is called.                     *)
(***************************************************************************)
C15_RequestAppendRefused ==
    \A p \in AllProcs :
        (Returned(p) /\ GateAndValidationPass(p) /\ RequestAppendRefused(p)) =>
            /\ IsErrorMessage(p, SPDM_ERROR_CODE_INVALID_REQUEST, 0)
            /\ TranscriptUnmodified(p)
            /\ BufferUntouchedAfterError(p)
            /\ ~HasLog(p, "zero_mem")
            /\ ~HasLog(p, "cert_chain_hash")
            /\ ~HasLog(p, "random_number")
            /\ ~SignerInvoked(p)

\* A valid request has been refused by a transcript that is full.
C15_Witness ==
    \E p \in AllProcs :
        /\ Returned(p)
        /\ GateAndValidationPass(p)
        /\ RequestAppendRefused(p)
        /\ IsErrorMessage(p, SPDM_ERROR_CODE_INVALID_REQUEST, 0)
        /\ log[p] = <<LogEntry("error_response", SPDM_ERROR_CODE_INVALID_REQUEST)>>

(***************************************************************************)
(* C16.  When the request append succeeds and the response append is       *)
(* refused, the output is an InvalidRequest error, the signer is not       *)
(* invoked, and the transcript holds the request of this exchange without  *)
(* its response.                                                           *)
(***************************************************************************)
C16_ResponseAppendRefused ==
    \A p \in AllProcs :
        (Returned(p) /\ GateAndValidationPass(p) /\ ResponseAppendRefused(p)) =>
            /\ IsErrorMessage(p, SPDM_ERROR_CODE_INVALID_REQUEST, 0)
            /\ ~SignerInvoked(p)
            /\ message_mut_c = transcript_before[p] \o request[p]

\* The response did not fit after the request did.
C16_Witness ==
    \E p \in AllProcs :
        /\ Returned(p)
        /\ GateAndValidationPass(p)
        /\ ResponseAppendRefused(p)
        /\ HasLog(p, "append_request")
        /\ HasLog(p, "random_number")
        /\ message_mut_c = transcript_before[p] \o request[p]

(***************************************************************************)
(* C20.  No step of the operation changes the configuration of the session *)
(* context: slot_count, provisioned_slot_id, the opaque data and its       *)
(* length, the algorithms, the capability flags and the versions stay as   *)
(* they were; only the transcript changes.                                 *)
(***************************************************************************)
C20_ContextUnchanged == [][spdm_context' = spdm_context]_vars

\* An exchange with the sentinel selector, which reads provisioned_slot_id,
\* has succeeded and has extended the transcript.
C20_Witness ==
    \E p \in AllProcs :
        /\ Succeeded(p)
        /\ RequestSlotId(request[p]) = SentinelSlot
        /\ message_mut_c # transcript_before[p]
(***************************************************************************)
(* C18.  Over any sequence of exchanges the transcript is only ever        *)
(* extended: every step leaves the old transcript a prefix of the new one, *)
(* and one exchange adds nothing, or its request, or its request followed  *)
(* by its response; never more, and never a response without its request.  *)
(***************************************************************************)
IsPrefix(a, b) == Len(a) <= Len(b) /\ SubSeq(b, 1, Len(a)) = a

AppendsOfExchange(p) ==
    LET m == message_mut_c
        before == transcript_before[p]
        added == SubSeq(m, Len(before) + 1, Len(m))
    IN  /\ IsPrefix(before, m)
        /\ HasLog(p, "append_response") => HasLog(p, "append_request")
        /\ \/ /\ ~HasLog(p, "append_request")
              /\ ~HasLog(p, "append_response")
              /\ added = <<>>
           \/ /\ HasLog(p, "append_request")
              /\ ~HasLog(p, "append_response")
              /\ added = request[p]
           \/ /\ HasLog(p, "append_request")
              /\ HasLog(p, "append_response")
              /\ Len(added) = Len(request[p]) + ResponsePartSize
              /\ SubSeq(added, 1, Len(request[p])) = request[p]
              /\ added[Len(request[p]) + 2] = SPDM_CHALLENGE_AUTH

C18_TranscriptOnlyExtended ==
    /\ [](\A p \in Procs : pc[p] # "idle" => AppendsOfExchange(p))
    /\ [][IsPrefix(message_mut_c, message_mut_c')]_vars

\* A second exchange has succeeded after a first one.
C18_Witness ==
    \E p \in Procs :
        /\ calls >= 2
        /\ Succeeded(p)
        /\ transcript_before[p] # <<>>
        /\ Len(message_mut_c) >= 2 * (SizeofChallengeRequest + ResponsePartSize)
(***************************************************************************)
(* C12.  Two exchanges from identical contexts with identical requests     *)
(* give responses of the same size that agree in version, response code,   *)
(* attribute byte, slot bitmask, certificate-chain digest, opaque-data     *)
(* length and opaque data, whatever the two nonces are: they differ in the *)
(* nonce and the signature at most.                                        *)
(***************************************************************************)
NonceAt == SizeofChallengeAuthResponse + HashSize

LengthAt == NonceAt + SPDM_NONCE_SIZE

SignatureAt == LengthAt + SizeofUint16 + OpaqueSize

C12_SameButNonceAndSignature ==
    \A p, q \in AllProcs :
        (/\ pc[q] = "recorded"
         /\ Succeeded(p)
         /\ IsChallengeAuth(q)
         /\ request[p] = request[q]
         /\ transcript_before[p] = transcript_before[q]) =>
            /\ response_size[p] = response_size[q]
            /\ response[p][1] = response[q][1]
            /\ response[p][2] = response[q][2]
            /\ response[p][3] = response[q][3]
            /\ response[p][4] = response[q][4]
            /\ Slice(response[p], SizeofChallengeAuthResponse, HashSize)
                 = Slice(response[q], SizeofChallengeAuthResponse, HashSize)
            /\ Slice(response[p], LengthAt, SizeofUint16 + OpaqueSize)
                 = Slice(response[q], LengthAt, SizeofUint16 + OpaqueSize)
            /\ \A i \in 1..response_size[p] :
                 response[p][i] # response[q][i] =>
                    \/ i > NonceAt /\ i <= LengthAt
                    \/ i > SignatureAt

\* What does hold: outside the nonce and the signature the two responses
\* differ in the slot bitmask at most, and in it only for a selector whose
\* shift at line 112 is undefined.
C12_SameButUndefinedShift ==
    \A p, q \in AllProcs :
        (/\ pc[q] = "recorded"
         /\ Succeeded(p)
         /\ IsChallengeAuth(q)
         /\ request[p] = request[q]
         /\ transcript_before[p] = transcript_before[q]) =>
            /\ response_size[p] = response_size[q]
            /\ \A i \in 1..response_size[p] :
                 response[p][i] # response[q][i] =>
                    \/ i > NonceAt /\ i <= LengthAt
                    \/ i > SignatureAt
                    \/ i = 4 /\ ShiftUndefined(RequestSlotId(request[p]))

\* Both exchanges have succeeded for a selector whose shift at line 112 is
\* undefined, and their slot bitmasks differ.
C12_Witness ==
    \E p, q \in AllProcs :
        /\ pc[q] = "recorded"
        /\ Succeeded(p)
        /\ IsChallengeAuth(q)
        /\ request[p] = request[q]
        /\ transcript_before[p] = transcript_before[q]
        /\ ShiftUndefined(RequestSlotId(request[p]))
        /\ capacity[p] >= total_size[p]
        /\ response[q][4] = 0
        /\ response[p][4] = 2

(***************************************************************************)
(* C19.  The function takes no lock.  An invocation that no other          *)
(* invocation overlapped signs the serialized transcript: at the signer    *)
(* call the transcript is the one before the call, then its request, then  *)
(* its response up to the signature.  When invocations overlap, a state is *)
(* reachable (C19_Witness) where another invocation's bytes lie between    *)
(* the request and the response of the invocation that is about to sign.   *)
(***************************************************************************)
Overlapped(p) ==
    \/ HasLog(p, "overlap")
    \/ HasLog(p, "call") /\ LogArg(p, "call") = 1

SerializedTranscript(p) ==
    transcript_before[p] \o request[p] \o Slice(response[p], 0, ptr[p])

C19_SerializedUnlessOverlapped ==
    \A p \in AllProcs :
        (pc[p] = "sign" /\ ~Overlapped(p)) =>
            message_mut_c = SerializedTranscript(p)

\* Invocation p is at the signer call and the request of invocation q lies
\* between p's request and p's response in the transcript.
C19_Witness ==
    \E p, q \in AllProcs :
        /\ p # q
        /\ pc[p] = "sign"
        /\ Overlapped(p)
        /\ pc[q] # "idle"
        /\ LET pre == transcript_before[p] \o request[p]
               rsp == Slice(response[p], 0, ptr[p])
               mid == Len(message_mut_c) - Len(pre) - Len(rsp)
           IN  /\ mid >= Len(request[q])
               /\ Len(request[q]) > 0
               /\ Slice(message_mut_c, 0, Len(pre)) = pre
               /\ Slice(message_mut_c, Len(pre), Len(request[q])) = request[q]
               /\ Slice(message_mut_c, Len(pre) + mid, Len(rsp)) = rsp
               /\ message_mut_c # SerializedTranscript(p)
====
